---- MODULE Spec2Model ----
(***************************************************************************)
(* Model of static/main.js: the browser client of the document-row         *)
(* tracker.  The client's state is the DOM (form fields, the groupMode     *)
(* select, the #content surface, the total badge, the upload controls) and *)
(* the async handlers in flight; the Row/File store the client talks to is *)
(* modelled from its API contract.                                         *)
(*                                                                         *)
(* Text is a sequence of one-character strings, so that trim() and the key *)
(* order of a JS object are computed rather than assumed.                  *)
(***************************************************************************)
EXTENDS Integers, Sequences, FiniteSets, TLC

\* ------------------------------------------------------------------ bounds
\* Handlers ever started in one behaviour (the DOMContentLoaded refresh is one).
MaxTasks == 3
\* Rows the store ever holds ids for.
MaxRows == 2
\* Files the store ever holds ids for.
MaxFiles == 2

None == [none |-> TRUE]

\* ------------------------------------------------------------ pure helpers
RECURSIVE SeqSum(_)
SeqSum(s) == IF s = <<>> THEN 0 ELSE Head(s) + SeqSum(Tail(s))

RECURSIVE Flatten(_)
Flatten(ss) == IF ss = <<>> THEN <<>> ELSE Head(ss) \o Flatten(Tail(ss))

RECURSIVE SelectSeqBy(_, _)
\* the elements of s whose index is in the set idx, in order
SelectSeqBy(s, idx) ==
  IF s = <<>> THEN <<>>
  ELSE LET n == Len(s)
           front == SelectSeqBy(SubSeq(s, 1, n - 1), idx)
       IN IF n \in idx THEN Append(front, s[n]) ELSE front

Range(s) == {s[i] : i \in DOMAIN s}

\* String.prototype.trim on a text: leading and trailing white space dropped.
RECURSIVE TrimLeft(_)
TrimLeft(s) == IF s # <<>> /\ Head(s) = " " THEN TrimLeft(Tail(s)) ELSE s

RECURSIVE TrimRight(_)
TrimRight(s) ==
  IF s # <<>> /\ s[Len(s)] = " " THEN TrimRight(SubSeq(s, 1, Len(s) - 1)) ELSE s

Trim(s) == TrimRight(TrimLeft(s))

\* ------------------------------------------------- Attachment Kind Registry
attachKinds == << [key |-> "invoice", label |-> "invoice-label"],
                  [key |-> "work",    label |-> "work-label"],
                  [key |-> "inspect", label |-> "inspect-label"],
                  [key |-> "other",   label |-> "other-label"] >>

KindKeys == {attachKinds[i].key : i \in DOMAIN attachKinds}

\* ---------------------------------------------------------------- inputs
\* What the user fills into #title, #category and #note.
Forms == { [title |-> <<" ">>, category |-> <<"x">>, note |-> <<"n">>],
           [title |-> <<" ", "a">>, category |-> <<" ">>, note |-> <<>>],
           [title |-> <<"a", " ">>, category |-> <<"x">>, note |-> <<"n">>] }
GroupModes == {"time", "category"}
FileNames == {"a.pdf"}

\* --------------------------------------------------------- Row/File store
\* The store collaborator, from its API contract: rows and files in insertion
\* order, ids assigned by the store, created_at assigned at creation.

StoreRowIds(s) == {s.rows[i].id : i \in DOMAIN s.rows}
StoreFileIds(s) == {s.files[i].id : i \in DOMAIN s.files}

\* POST /api/rows: 4xx if the title is empty.
StoreCanCreate(s, body) == body.title # <<>> /\ s.nextRow <= MaxRows

StoreCreateRow(s, body, ts) ==
  [s EXCEPT !.rows = Append(@, [id |-> s.nextRow, title |-> body.title,
                                 category |-> body.category, note |-> body.note,
                                 created_at |-> ts]),
            !.nextRow = @ + 1,
            !.clock = ts]

\* DELETE /api/rows/{id}: fails if the id is unknown; cascades to the files.
StoreCanDeleteRow(s, id) == id \in StoreRowIds(s)

\* StoreDeleteRow that leaves the files of the row behind
StoreDeleteRowNoCascade(s, id) == [s EXCEPT !.rows = SelectSeq(@, LAMBDA r : r.id # id)]

StoreDeleteRow(s, id) ==
  [s EXCEPT !.rows = SelectSeq(@, LAMBDA r : r.id # id),
            !.files = SelectSeq(@, LAMBDA f : f.row_id # id)]

\* POST /api/upload: fails if kind is not in the registry or row_id is unknown.
StoreCanUpload(s, row_id, kind) ==
  kind \in KindKeys /\ row_id \in StoreRowIds(s) /\ s.nextFile <= MaxFiles

StoreUpload(s, row_id, kind, name) ==
  [s EXCEPT !.files = Append(@, [id |-> s.nextFile, row_id |-> row_id,
                                  kind |-> kind, original_name |-> name]),
            !.nextFile = @ + 1]

\* DELETE /api/files/{id}: fails if the id is unknown.
StoreCanDeleteFile(s, id) == id \in StoreFileIds(s)

StoreDeleteFile(s, id) == [s EXCEPT !.files = SelectSeq(@, LAMBDA f : f.id # id)]

\* A row as the read API returns it: its files bucketed by kind, in upload
\* order; a kind with no file is absent from the map.
StoreRowFiles(s, id) ==
  LET mine == SelectSeq(s.files, LAMBDA f : f.row_id = id)
      kinds == {mine[i].kind : i \in DOMAIN mine}
  IN [k \in kinds |-> SelectSeq(mine, LAMBDA f : f.kind = k)]

StoreRowView(s, r) ==
  [id |-> r.id, title |-> r.title, category |-> r.category, note |-> r.note,
   created_at |-> r.created_at, files |-> StoreRowFiles(s, r.id)]

RECURSIVE InsertByTimeDesc(_, _)
\* r inserted behind every row that is at least as recent: a stable sort
InsertByTimeDesc(sorted, r) ==
  IF sorted = <<>> THEN <<r>>
  ELSE IF Head(sorted).created_at >= r.created_at
       THEN <<Head(sorted)>> \o InsertByTimeDesc(Tail(sorted), r)
       ELSE <<r>> \o sorted

RECURSIVE SortByTimeDesc(_)
SortByTimeDesc(rows) ==
  IF rows = <<>> THEN <<>>
  ELSE InsertByTimeDesc(SortByTimeDesc(SubSeq(rows, 1, Len(rows) - 1)),
                        rows[Len(rows)])

RECURSIVE GroupByCategory(_, _)
\* groups as [key, rows] pairs, keys in first-seen order
GroupByCategory(rows, acc) ==
  IF rows = <<>> THEN acc
  ELSE LET r == Head(rows)
           at == {i \in DOMAIN acc : acc[i].key = r.category}
       IN GroupByCategory(Tail(rows),
            IF at = {} THEN Append(acc, [key |-> r.category, rows |-> <<r>>])
            ELSE [i \in DOMAIN acc |->
                    IF i \in at THEN [acc[i] EXCEPT !.rows = Append(@, r)]
                    ELSE acc[i]])

StoreRowViews(s) == [i \in DOMAIN s.rows |-> StoreRowView(s, s.rows[i])]

\* GET /api/rows?group=...
StoreGet(s, mode) ==
  IF mode = "time"
  THEN [mode |-> "time", rows |-> SortByTimeDesc(StoreRowViews(s))]
  ELSE [mode |-> "category", groups |-> GroupByCategory(StoreRowViews(s), <<>>)]

EmptyStore == [rows |-> <<>>, files |-> <<>>, nextRow |-> 1, nextFile |-> 1, clock |-> 1]

\* Store contents the page can be opened on: nothing yet, or two rows of the
\* same instant, the older one with an invoice.
InitStores ==
  { EmptyStore,
    [rows |-> << [id |-> 1, title |-> <<"a">>, category |-> <<"x">>, note |-> <<>>,
                  created_at |-> 1],
                 [id |-> 2, title |-> <<"b">>, category |-> <<"1">>, note |-> <<"n">>,
                  created_at |-> 1] >>,
     files |-> << [id |-> 1, row_id |-> 1, kind |-> "invoice",
                   original_name |-> "a.pdf"] >>,
     nextRow |-> 3, nextFile |-> 2, clock |-> 1] }

\* ------------------------------------------------------------ JS values
\* A JSON object is a record; any other JS value that stands for a whole body
\* (a string, null, the raw text of a body that does not parse) is wrapped as
\* [jsprim |-> v].  The value of an error field is tagged with its JS type.
JsStr(s) == [t |-> "string", v |-> s]
JsNum(n) == [t |-> "number", v |-> n]
JsNull == [t |-> "null", v |-> 0]
JsObject == [t |-> "object", v |-> 0]

\* ToBoolean, as || applies it
Truthy(x) ==
  CASE x.t = "string" -> x.v # ""
    [] x.t = "number" -> x.v # 0
    [] x.t = "null" -> FALSE
    [] OTHER -> TRUE

\* ToString, as new Error(message) applies it; the numbers are single digits
JsToString(x) ==
  CASE x.t = "string" -> x.v
    [] x.t = "number" -> <<"0", "1", "2", "3", "4", "5", "6", "7", "8", "9">>[x.v + 1]
    [] x.t = "null" -> "null"
    [] OTHER -> "[object Object]"

HasField(v, f) == f \in DOMAIN v

Msg(text, status) == [text |-> text, status |-> status]

\* api(url, opts): the response `resp` of fetch, to the value returned or the
\* Error thrown: data?.error || `HTTP ${res.status}`.  resp.net = FALSE is
\* fetch itself rejecting.
api(resp) ==
  IF ~resp.net THEN [threw |-> TRUE, msg |-> Msg("Failed to fetch", 0)]
  ELSE LET data == IF resp.body.json THEN resp.body.val
                   ELSE [jsprim |-> resp.body.txt]
       IN IF ~resp.ok
          THEN [threw |-> TRUE,
                msg |-> IF HasField(data, "error") /\ Truthy(data.error)
                        THEN Msg(JsToString(data.error), 0)
                        ELSE Msg("HTTP", resp.status)]
          ELSE [threw |-> FALSE, data |-> data]

\* Object.keys / Object.values order: integer-like keys first, ascending, then
\* the other keys in insertion order.  An object is a sequence of [key, rows].
IsDigit(c) == c \in {"0", "1", "2", "3", "4", "5", "6", "7", "8", "9"}

DigitVal(c) ==
  CASE c = "0" -> 0 [] c = "1" -> 1 [] c = "2" -> 2 [] c = "3" -> 3 [] c = "4" -> 4
    [] c = "5" -> 5 [] c = "6" -> 6 [] c = "7" -> 7 [] c = "8" -> 8 [] OTHER -> 9

RECURSIVE NumVal(_)
NumVal(s) == IF s = <<>> THEN 0
             ELSE 10 * NumVal(SubSeq(s, 1, Len(s) - 1)) + DigitVal(s[Len(s)])

IsArrayIndex(s) ==
  /\ s # <<>>
  /\ \A i \in DOMAIN s : IsDigit(s[i])
  /\ (Len(s) = 1 \/ s[1] # "0")
  \* below 2^32 - 1; every text of the model is far shorter than ten digits
  /\ Len(s) < 10

RECURSIVE AscendingKeys(_)
AscendingKeys(ks) ==
  IF ks = {} THEN <<>>
  ELSE LET m == CHOOSE k \in ks : \A o \in ks : NumVal(k) <= NumVal(o)
       IN <<m>> \o AscendingKeys(ks \ {m})

ObjectKeys(obj) ==
  LET idx == {i \in DOMAIN obj : IsArrayIndex(obj[i].key)}
      rest == SelectSeqBy(obj, DOMAIN obj \ idx)
  IN AscendingKeys({obj[i].key : i \in idx}) \o [i \in DOMAIN rest |-> rest[i].key]

ObjectGet(obj, k) == obj[CHOOSE i \in DOMAIN obj : obj[i].key = k].rows

ObjectValues(obj) ==
  LET ks == ObjectKeys(obj) IN [i \in DOMAIN ks |-> ObjectGet(obj, ks[i])]

\* ------------------------------------------------------------ rendering
RECURSIVE SumLengths(_, _)
SumLengths(files, ks) ==
  IF ks = {} THEN 0
  ELSE LET k == CHOOSE x \in ks : TRUE
       IN Len(files[k]) + SumLengths(files, ks \ {k})

\* countAllFiles adding one per bucket instead of its length
countAllFilesPerBucket(rows) ==
  SeqSum([i \in DOMAIN rows |->
            IF HasField(rows[i], "files") THEN Cardinality(DOMAIN rows[i].files) ELSE 0])

\* countAllFiles(rows): over every key of every row's files map.
countAllFiles(rows) ==
  SeqSum([i \in DOMAIN rows |->
            LET files == IF HasField(rows[i], "files") THEN rows[i].files ELSE <<>>
            IN SumLengths(files, DOMAIN files)])

\* makeInstantUploadButton sending the invoice kind whatever its cell
makeInstantUploadButtonOneKind(rowId, kind, gen) ==
  [gen |-> gen, rowId |-> rowId, kind |-> "invoice"]

\* makeInstantUploadButton(rowId, kind): the control built by one render; gen
\* tells the elements of one render from those of another.
makeInstantUploadButton(rowId, kind, gen) == [gen |-> gen, rowId |-> rowId, kind |-> kind]

\* renderFilesCell reading the invoice bucket whatever the kind
renderFilesCellOneBucket(row, kind, gen) ==
  LET list == IF HasField(row, "files") /\ "invoice" \in DOMAIN row.files
              THEN row.files["invoice"] ELSE <<>>
  IN [uploader |-> makeInstantUploadButton(row.id, kind, gen),
      files |-> [i \in DOMAIN list |->
                   [href |-> list[i].id, text |-> list[i].original_name,
                    del |-> list[i].id]]]

\* renderFilesCell(row, kind): the upload control, then one entry (download
\* link and delete control) per file of that kind.
renderFilesCell(row, kind, gen) ==
  LET list == IF HasField(row, "files") /\ kind \in DOMAIN row.files
              THEN row.files[kind] ELSE <<>>
  IN [uploader |-> makeInstantUploadButton(row.id, kind, gen),
      files |-> [i \in DOMAIN list |->
                   [href |-> list[i].id, text |-> list[i].original_name,
                    del |-> list[i].id]]]

\* renderTable building its rows last to first
renderTableReversed(rows, gen) ==
  [type |-> "table",
   rows |-> [i \in DOMAIN rows |->
      LET r == rows[Len(rows) + 1 - i]
      IN [created_at |-> r.created_at,
          title |-> r.title,
          note |-> IF r.note # <<>> THEN r.note ELSE <<" ">>,
          category |-> r.category,
          cells |-> << renderFilesCell(r, "invoice", gen),
                       renderFilesCell(r, "work", gen),
                       renderFilesCell(r, "inspect", gen),
                       renderFilesCell(r, "other", gen) >>,
          delRow |-> r.id]]]

\* renderTable(rows): one tr per row, the four kind cells in header order.
renderTable(rows, gen) ==
  [type |-> "table",
   rows |-> [i \in DOMAIN rows |->
      LET r == rows[i]
      IN [created_at |-> r.created_at,
          title |-> r.title,
          note |-> IF r.note # <<>> THEN r.note ELSE <<" ">>,
          category |-> r.category,
          cells |-> << renderFilesCell(r, "invoice", gen),
                       renderFilesCell(r, "work", gen),
                       renderFilesCell(r, "inspect", gen),
                       renderFilesCell(r, "other", gen) >>,
          delRow |-> r.id]]]

\* refresh without content.innerHTML = "": the new nodes are appended to the old
clearContentSkipped(cont) == cont

\* refresh, line 176: content.innerHTML = "".
clearContent(cont) == <<>>

\* The synchronous tail of refresh(), after the snapshot has arrived: the
\* badge and the children of #content, which was cleared first.
refreshBadge(data) ==
  IF HasField(data, "mode") /\ data.mode = "time"
  THEN countAllFiles(data.rows)
  ELSE LET groups == IF HasField(data, "groups") THEN data.groups ELSE <<>>
       IN countAllFiles(Flatten(ObjectValues(groups)))

refreshContent(data, gen) ==
  IF HasField(data, "mode") /\ data.mode = "time"
  THEN << renderTable(data.rows, gen) >>
  ELSE LET groups == IF HasField(data, "groups") THEN data.groups ELSE <<>>
           keys == ObjectKeys(groups)
       IN IF Len(keys) = 0 THEN << [type |-> "nodata"] >>
          ELSE Flatten([i \in DOMAIN keys |->
                 << [type |-> "groupHead", key |-> keys[i]],
                    renderTable(ObjectGet(groups, keys[i]), gen) >>])

\* ------------------------------------------------------------------ state
VARIABLES
  store,      \* the Row/File store behind the API
  title,      \* #title.value
  category,   \* #category.value
  note,       \* #note.value
  groupMode,  \* #groupMode.value
  content,    \* the children of #content
  badge,      \* the text of #totalBadge .num
  gen,        \* number of renders so far: tells one render's elements from another's
  ctl,        \* the upload controls that are not in their idle state
  tasks       \* the handlers started so far, in order

vars == <<store, title, category, note, groupMode, content, badge, gen, ctl, tasks>>

Ops == {"load", "createRow", "uploadFile", "deleteFile", "deleteRow"}
Mutations == Ops \ {"load"}

\* An upload control as built by makeInstantUploadButton.
IdleCtl == [disabled |-> FALSE, label |-> "upload", value |-> ""]
BusyCtl(file) == [disabled |-> TRUE, label |-> "uploading", value |-> file]
CtlState(c) == IF c \in DOMAIN ctl THEN ctl[c] ELSE IdleCtl

\* What is on the surface.
TablesOf(cont) == SelectSeq(cont, LAMBDA n : n.type = "table")
RowsShown(cont) == Flatten([i \in DOMAIN TablesOf(cont) |-> TablesOf(cont)[i].rows])
CellsShown(cont) == Flatten([i \in DOMAIN RowsShown(cont) |-> RowsShown(cont)[i].cells])
FilesShown(cont) == Flatten([i \in DOMAIN CellsShown(cont) |-> CellsShown(cont)[i].files])
ControlsShown(cont) == {CellsShown(cont)[i].uploader : i \in DOMAIN CellsShown(cont)}

\* --------------------------------------------------------------- handlers
\* A handler: op and arg say what was called, pc where it waits ("mutation":
\* on its mutation request, "refresh": on the GET of refresh(), "done":
\* returned), mut and ref how far each request got ("none", "sent", "replied",
\* "ok", "fail"), resp the response on its way, alerts what it has alerted.
\* The arg of a delete handler also holds what confirm() returned.
NewTask(op, arg) ==
  [op |-> op, arg |-> arg, pc |-> "done", mut |-> "none", ref |-> "none",
   resp |-> None, mode |-> "", alerts |-> <<>>]

\* refresh(), up to its await (lines 172-173): the mode is read, the GET sent.
refreshStart(task) ==
  [task EXCEPT !.pc = "refresh", !.ref = "sent", !.mode = groupMode, !.resp = None]

\* mutationStart without the await: refresh() is called while the mutation
\* request is still on its way
mutationStartNoAwait(task) ==
  [task EXCEPT !.pc = "mutation", !.mut = "sent", !.ref = "sent", !.mode = groupMode]

\* the mutation request is sent and the handler awaits it
mutationStart(task) == [task EXCEPT !.pc = "mutation", !.mut = "sent"]

alert(task, msg) == [task EXCEPT !.alerts = Append(@, msg)]

\* the handler has returned: what is kept of it is its outcome
finish(task) == [task EXCEPT !.pc = "done", !.resp = None, !.arg = None, !.mode = ""]

\* createRowBody with the title check made on the untrimmed field
createRowBodyRawTitle == [title |-> title, category |-> Trim(category), note |-> Trim(note)]

\* createRow, lines 34-36: the trimmed fields.
createRowBody == [title |-> Trim(title), category |-> Trim(category), note |-> Trim(note)]

\* createRow, lines 37-43: the title check, then the POST.
createRowStart ==
  IF createRowBody.title = <<>>
  THEN finish(alert(NewTask("createRow", None), Msg("title required", 0)))
  ELSE mutationStart(NewTask("createRow", [body |-> createRowBody]))

\* createRow, lines 39-47: after the POST; a rejection of the await is caught
\* by nobody.
createRowAfterPost(task, r) ==
  IF r.threw THEN finish([task EXCEPT !.mut = "fail"])
  ELSE refreshStart([task EXCEPT !.mut = "ok"])

\* deleteRow, line 51: confirm().
deleteRowStart(id, confirmed) ==
  IF ~confirmed THEN NewTask("deleteRow", [confirmed |-> FALSE])
  ELSE mutationStart(NewTask("deleteRow", [id |-> id, confirmed |-> TRUE]))

\* deleteRowAfterDelete without its refresh()
deleteRowAfterDeleteNoRefresh(task, r) ==
  finish([task EXCEPT !.mut = IF r.threw THEN "fail" ELSE "ok"])

\* deleteRow, lines 52-53.
deleteRowAfterDelete(task, r) ==
  IF r.threw THEN finish([task EXCEPT !.mut = "fail"])
  ELSE refreshStart([task EXCEPT !.mut = "ok"])

\* deleteFileStart with the answer of confirm() ignored
deleteFileStartUnconfirmed(id, confirmed) ==
  mutationStart(NewTask("deleteFile", [id |-> id, confirmed |-> confirmed]))

\* the file delete control, line 113: confirm().
deleteFileStart(id, confirmed) ==
  IF ~confirmed THEN NewTask("deleteFile", [confirmed |-> FALSE])
  ELSE mutationStart(NewTask("deleteFile", [id |-> id, confirmed |-> TRUE]))

\* the file delete control, lines 114-117: try { await api; refresh() } catch.
deleteFileAfterDelete(task, r) ==
  IF r.threw THEN finish(alert([task EXCEPT !.mut = "fail"], r.msg))
  ELSE refreshStart([task EXCEPT !.mut = "ok"])

\* the change handler, lines 78-89: the POST is sent.
uploadStart(c, file) == mutationStart(NewTask("uploadFile", [ctrl |-> c, file |-> file]))

\* uploadBusy without btn.disabled = true
uploadBusyNotDisabled(c, file) == (c :> [BusyCtl(file) EXCEPT !.disabled = FALSE]) @@ ctl

\* the change handler, lines 86-87: the control goes busy.
uploadBusy(c, file) == (c :> BusyCtl(file)) @@ ctl

\* uploadAfterPost with refresh() called from the catch block too
uploadAfterPostRefreshOnError(task, r) ==
  IF r.threw THEN refreshStart(alert([task EXCEPT !.mut = "fail"], r.msg))
  ELSE refreshStart([task EXCEPT !.mut = "ok"])

\* the change handler, lines 89-92: after the POST.
uploadAfterPost(task, r) ==
  IF r.threw THEN finish(alert([task EXCEPT !.mut = "fail"], r.msg))
  ELSE refreshStart([task EXCEPT !.mut = "ok"])

\* no finally block: the control stays as the handler left it
uploadNoFinally(c) == ctl

\* the change handler, lines 93-97: finally.  The control is idle again.
uploadFinally(c) == [x \in DOMAIN ctl \ {c} |-> ctl[x]]

\* the end of a refresh() the handler does not await: a rejection is caught by
\* nobody.
refreshEnd(task, r) == finish([task EXCEPT !.ref = IF r.threw THEN "fail" ELSE "ok"])

\* the end of the refresh() the change handler awaits inside its try.
uploadAfterRefresh(task, r) ==
  IF r.threw THEN finish(alert([task EXCEPT !.ref = "fail"], r.msg))
  ELSE finish([task EXCEPT !.ref = "ok"])

\* --------------------------------------------------------------- responses
OkResp(val) == [net |-> TRUE, ok |-> TRUE, status |-> 200,
                body |-> [json |-> TRUE, val |-> val]]

\* How a request fails here: a 4xx with an { error } body.
FailResponses ==
  { [net |-> TRUE, ok |-> FALSE, status |-> 400,
     body |-> [json |-> TRUE, val |-> [error |-> JsStr("bad request")]]] }

NoCtl == [x \in {} |-> IdleCtl]

Init ==
  /\ store \in InitStores
  /\ title = <<>>
  /\ category = <<>>
  /\ note = <<>>
  /\ groupMode \in GroupModes
  /\ content = <<>>
  /\ badge = 0
  /\ gen = 0
  /\ ctl = NoCtl
  \* line 201: DOMContentLoaded has called refresh()
  /\ tasks = << refreshStart(NewTask("load", None)) >>

\* one more handler can start
CanStart == Len(tasks) < MaxTasks

\* ------------------------------------------------------------ user actions
\* The user fills in the form.
FillForm(f) ==
  /\ CanStart
  /\ <<title, category, note>> # <<f.title, f.category, f.note>>
  /\ title' = f.title
  /\ category' = f.category
  /\ note' = f.note
  /\ UNCHANGED <<store, groupMode, content, badge, gen, ctl, tasks>>

\* The user picks a grouping; the select is read by the next refresh() only.
SelectGroupMode(m) ==
  /\ CanStart \/ \E t \in DOMAIN tasks : tasks[t].pc = "mutation"
  /\ m # groupMode
  /\ groupMode' = m
  /\ UNCHANGED <<store, title, category, note, content, badge, gen, ctl, tasks>>

\* createRow() is called.
CreateRow ==
  /\ CanStart
  /\ tasks' = Append(tasks, createRowStart)
  /\ UNCHANGED <<store, title, category, note, groupMode, content, badge, gen, ctl>>

\* The row-delete control of a displayed row is clicked.
DeleteRow(id, confirmed) ==
  /\ CanStart
  /\ \E i \in DOMAIN RowsShown(content) : RowsShown(content)[i].delRow = id
  /\ tasks' = Append(tasks, deleteRowStart(id, confirmed))
  /\ UNCHANGED <<store, title, category, note, groupMode, content, badge, gen, ctl>>

\* The delete control of a displayed file is clicked.
DeleteFile(id, confirmed) ==
  /\ CanStart
  /\ \E i \in DOMAIN FilesShown(content) : FilesShown(content)[i].del = id
  /\ tasks' = Append(tasks, deleteFileStart(id, confirmed))
  /\ UNCHANGED <<store, title, category, note, groupMode, content, badge, gen, ctl>>

\* A displayed upload button is clicked (line 75; a disabled button takes no
\* click), a file is picked in the dialog of its input, and the change handler
\* runs up to its await.  A dialog dismissed without a file changes nothing.
Upload(c, file) ==
  /\ CanStart
  /\ c \in ControlsShown(content)
  /\ ~CtlState(c).disabled
  /\ tasks' = Append(tasks, uploadStart(c, file))
  /\ ctl' = uploadBusy(c, file)
  /\ UNCHANGED <<store, title, category, note, groupMode, content, badge, gen>>

\* ------------------------------------------------------------ the store acts
Reply(t, resp, field) ==
  tasks' = [tasks EXCEPT ![t] = [@ EXCEPT ![field] = "replied", !.resp = resp]]

\* The store serves the mutation request of handler t.
ServeMutation(t) ==
  /\ tasks[t].mut = "sent"
  /\ LET task == tasks[t]
         a == task.arg
     IN \/ /\ task.op = "createRow"
           /\ StoreCanCreate(store, a.body)
           /\ store' = StoreCreateRow(store, a.body, store.clock + 1)
        \/ /\ task.op = "deleteRow"
           /\ StoreCanDeleteRow(store, a.id)
           /\ store' = StoreDeleteRow(store, a.id)
        \/ /\ task.op = "uploadFile"
           /\ StoreCanUpload(store, a.ctrl.rowId, a.ctrl.kind)
           /\ store' = StoreUpload(store, a.ctrl.rowId, a.ctrl.kind, a.file)
        \/ /\ task.op = "deleteFile"
           /\ StoreCanDeleteFile(store, a.id)
           /\ store' = StoreDeleteFile(store, a.id)
  /\ Reply(t, OkResp([ok |-> TRUE]), "mut")
  /\ UNCHANGED <<title, category, note, groupMode, content, badge, gen, ctl>>

\* The mutation request of handler t fails and leaves the store as it was.
FailMutation(t, resp) ==
  /\ tasks[t].mut = "sent"
  /\ Reply(t, resp, "mut")
  /\ UNCHANGED <<store, title, category, note, groupMode, content, badge, gen, ctl>>

\* The store serves GET /api/rows?group=mode of handler t: a snapshot.
ServeGet(t) ==
  /\ tasks[t].ref = "sent"
  /\ Reply(t, OkResp(StoreGet(store, tasks[t].mode)), "ref")
  /\ UNCHANGED <<store, title, category, note, groupMode, content, badge, gen, ctl>>

FailGet(t, resp) ==
  /\ tasks[t].ref = "sent"
  /\ Reply(t, resp, "ref")
  /\ UNCHANGED <<store, title, category, note, groupMode, content, badge, gen, ctl>>

\* ------------------------------------------------- the handlers resume
\* createRow resumes after its POST (lines 45-47).
CreateRowResume(t) ==
  /\ tasks[t].op = "createRow" /\ tasks[t].mut = "replied"
  /\ LET r == api(tasks[t].resp)
     IN /\ tasks' = [tasks EXCEPT ![t] = createRowAfterPost(@, r)]
        /\ title' = IF r.threw THEN title ELSE <<>>
        /\ note' = IF r.threw THEN note ELSE <<>>
  /\ UNCHANGED <<store, category, groupMode, content, badge, gen, ctl>>

DeleteRowResume(t) ==
  /\ tasks[t].op = "deleteRow" /\ tasks[t].mut = "replied"
  /\ tasks' = [tasks EXCEPT ![t] = deleteRowAfterDelete(@, api(@.resp))]
  /\ UNCHANGED <<store, title, category, note, groupMode, content, badge, gen, ctl>>

DeleteFileResume(t) ==
  /\ tasks[t].op = "deleteFile" /\ tasks[t].mut = "replied"
  /\ tasks' = [tasks EXCEPT ![t] = deleteFileAfterDelete(@, api(@.resp))]
  /\ UNCHANGED <<store, title, category, note, groupMode, content, badge, gen, ctl>>

\* the change handler resumes after its POST: on an error, catch and finally.
UploadResume(t) ==
  /\ tasks[t].op = "uploadFile" /\ tasks[t].mut = "replied"
  /\ LET r == api(tasks[t].resp)
     IN /\ tasks' = [tasks EXCEPT ![t] = uploadAfterPost(@, r)]
        /\ ctl' = IF r.threw THEN uploadFinally(tasks[t].arg.ctrl) ELSE ctl
  /\ UNCHANGED <<store, title, category, note, groupMode, content, badge, gen>>

\* Render with #content cleared before the outcome of the fetch is known
RenderClearFirst(r) ==
  IF r.threw THEN content' = clearContent(content) /\ UNCHANGED <<badge, gen>>
  ELSE /\ content' = clearContent(content) \o refreshContent(r.data, gen + 1)
       /\ badge' = refreshBadge(r.data)
       /\ gen' = gen + 1

\* refresh() resumes after its GET (lines 175-198): on a snapshot, #content is
\* cleared and rebuilt and the badge set; on an error nothing is touched.
Render(r) ==
  IF r.threw THEN UNCHANGED <<content, badge, gen>>
  ELSE /\ content' = clearContent(content) \o refreshContent(r.data, gen + 1)
       /\ badge' = refreshBadge(r.data)
       /\ gen' = gen + 1

RefreshResume(t) ==
  /\ tasks[t].op # "uploadFile" /\ tasks[t].ref = "replied"
  /\ LET r == api(tasks[t].resp)
     IN /\ Render(r)
        /\ tasks' = [tasks EXCEPT ![t] = refreshEnd(@, r)]
  /\ UNCHANGED <<store, title, category, note, groupMode, ctl>>

\* the refresh() awaited by the change handler resumes, then catch and finally.
UploadRefreshResume(t) ==
  /\ tasks[t].op = "uploadFile" /\ tasks[t].ref = "replied"
  /\ LET r == api(tasks[t].resp)
     IN /\ Render(r)
        /\ tasks' = [tasks EXCEPT ![t] = uploadAfterRefresh(@, r)]
  /\ ctl' = uploadFinally(tasks[t].arg.ctrl)
  /\ UNCHANGED <<store, title, category, note, groupMode>>

Next ==
  \/ \E f \in Forms : FillForm(f)
  \/ \E m \in GroupModes : SelectGroupMode(m)
  \/ CreateRow
  \/ \E id \in 1..MaxRows, ok \in BOOLEAN : DeleteRow(id, ok)
  \/ \E id \in 1..MaxFiles, ok \in BOOLEAN : DeleteFile(id, ok)
  \/ \E c \in ControlsShown(content), f \in FileNames : Upload(c, f)
  \/ \E t \in DOMAIN tasks : ServeMutation(t)
  \/ \E t \in DOMAIN tasks, resp \in FailResponses : FailMutation(t, resp)
  \/ \E t \in DOMAIN tasks : ServeGet(t)
  \/ \E t \in DOMAIN tasks, resp \in FailResponses : FailGet(t, resp)
  \/ \E t \in DOMAIN tasks : CreateRowResume(t)
  \/ \E t \in DOMAIN tasks : DeleteRowResume(t)
  \/ \E t \in DOMAIN tasks : DeleteFileResume(t)
  \/ \E t \in DOMAIN tasks : UploadResume(t)
  \/ \E t \in DOMAIN tasks : RefreshResume(t)
  \/ \E t \in DOMAIN tasks : UploadRefreshResume(t)

Spec == Init /\ [][Next]_vars

\* ------------------------------------------------- api on its own
\* The responses api is given: success and failure statuses, bodies that do
\* not parse, and JSON bodies with and without an error field of every type.
ApiStatuses == {200, 201, 400, 404, 500}

ApiBodies ==
  { [json |-> FALSE, txt |-> "oops"],
    [json |-> FALSE, txt |-> ""],
    [json |-> TRUE, val |-> [error |-> JsStr("bad request")]],
    [json |-> TRUE, val |-> [error |-> JsStr("")]],
    [json |-> TRUE, val |-> [error |-> JsNum(5)]],
    [json |-> TRUE, val |-> [error |-> JsNum(0)]],
    [json |-> TRUE, val |-> [error |-> JsNull]],
    [json |-> TRUE, val |-> [error |-> JsObject]],
    [json |-> TRUE, val |-> [ok |-> TRUE]],
    [json |-> TRUE, val |-> [jsprim |-> "abc"]] }

ApiResponses ==
  { [net |-> TRUE, ok |-> st < 300, status |-> st, body |-> b] :
      st \in ApiStatuses, b \in ApiBodies }

\* the store that holds rows already
StoreWithRows == CHOOSE s \in InitStores : s.rows # <<>>

\* The page has rendered its first snapshot, and a handler that alerts what api
\* throws (the file delete control of file 1, or the upload control of row 1
\* and kind work) has received the response of its request.
ApiInit ==
  \E resp \in ApiResponses, op \in {"deleteFile", "uploadFile"} :
    LET c == makeInstantUploadButton(1, "work", 1)
        handler == IF op = "deleteFile"
                   THEN mutationStart(NewTask("deleteFile", [id |-> 1, confirmed |-> TRUE]))
                   ELSE mutationStart(NewTask("uploadFile", [ctrl |-> c, file |-> "a.pdf"]))
    IN /\ store = IF ~resp.ok THEN StoreWithRows
                  ELSE IF op = "deleteFile" THEN StoreDeleteFile(StoreWithRows, 1)
                  ELSE StoreUpload(StoreWithRows, 1, "work", "a.pdf")
       /\ title = <<>>
       /\ category = <<>>
       /\ note = <<>>
       /\ groupMode \in GroupModes
       /\ content = refreshContent(StoreGet(StoreWithRows, groupMode), 1)
       /\ badge = refreshBadge(StoreGet(StoreWithRows, groupMode))
       /\ gen = 1
       /\ ctl = IF op = "uploadFile" THEN (c :> BusyCtl("a.pdf")) ELSE NoCtl
       /\ tasks = << finish([NewTask("load", None) EXCEPT !.ref = "ok"]),
                     [handler EXCEPT !.mut = "replied", !.resp = resp] >>

ApiNext ==
  \/ \E t \in DOMAIN tasks : DeleteFileResume(t)
  \/ \E t \in DOMAIN tasks : UploadResume(t)

ApiSpec == ApiInit /\ [][ApiNext]_vars

\* ------------------------------------------------------------------ claims
MutationTasks == {t \in DOMAIN tasks : tasks[t].op \in Mutations}

\* the handler started by this step, when the step starts one
Started == Len(tasks') = Len(tasks) + 1
NewOne == tasks'[Len(tasks')]

\* C1: within one user action the refresh fetch is issued only once the
\* response of that action's mutation request is known: a handler's mutation
\* request and its refresh fetch are never both in flight.
C1_RefreshAfterMutation ==
  \A t \in MutationTasks :
    tasks[t].ref # "none" => tasks[t].mut \in {"ok", "fail"}

C1_Witness ==
  \E t \in MutationTasks : tasks[t].mut = "ok" /\ tasks[t].ref = "sent"

\* C2 as stated: a mutation request that has completed, with success or with
\* failure, is followed by a refresh fetch.
C2_RefreshAfterEveryOutcome ==
  \A t \in MutationTasks :
    tasks[t].mut \in {"ok", "fail"} => tasks[t].ref # "none"

\* C2, amended: a mutation request that has completed with success is followed
\* by a refresh fetch, issued by the continuation that learns of the success;
\* one that has completed with failure is followed by none.
C2_RefreshAfterSuccessOnly ==
  \A t \in MutationTasks :
    /\ tasks[t].mut = "ok" => tasks[t].ref # "none"
    /\ tasks[t].mut = "fail" => tasks[t].ref = "none"

C2_Witness ==
  /\ \E t \in MutationTasks : tasks[t].mut = "fail" /\ tasks[t].pc = "done"
  /\ \E t \in MutationTasks : tasks[t].mut = "ok" /\ tasks[t].ref \in {"sent", "replied"}

\* C3: every error of a mutation request is surfaced through alert(), and no
\* failed mutation request is sent again.
C3_MutationErrorsAlerted ==
  \A t \in MutationTasks :
    tasks[t].mut = "fail" => tasks[t].alerts # <<>> /\ tasks[t].pc = "done"

\* C4: a mutation that fails changes nothing in the rendered view: the step
\* that starts a mutation and the step that learns of its failure leave
\* #content and the badge as they were, the failing handler issues no refresh
\* and returns, and a failed upload leaves its control idle, as it was before.
C4_FailedMutationKeepsView ==
  [][ /\ (Started /\ NewOne.op \in Mutations) => UNCHANGED <<content, badge>>
      /\ \A t \in MutationTasks :
           (tasks[t].mut = "replied" /\ tasks'[t].mut = "fail") =>
             /\ UNCHANGED <<content, badge, gen>>
             /\ tasks'[t].ref = "none"
             /\ tasks'[t].pc = "done"
             /\ tasks[t].op = "uploadFile" => tasks[t].arg.ctrl \notin DOMAIN ctl'
    ]_vars

C4_Witness ==
  \E t \in MutationTasks :
    tasks[t].op = "uploadFile" /\ tasks[t].mut = "fail" /\ RowsShown(content) # <<>>

\* The files of a store, a snapshot and a surface, each as (row id, kind, file
\* id, name).
StoreFileSet(s) ==
  {<<s.files[i].row_id, s.files[i].kind, s.files[i].id, s.files[i].original_name>> :
     i \in DOMAIN s.files}

SnapshotRows(data) ==
  IF data.mode = "time" THEN data.rows
  ELSE Flatten([i \in DOMAIN data.groups |-> data.groups[i].rows])

SnapshotFileSet(data) ==
  LET rows == SnapshotRows(data)
  IN UNION { UNION { {<<rows[i].id, k, rows[i].files[k][j].id,
                        rows[i].files[k][j].original_name>> :
                         j \in DOMAIN rows[i].files[k]} :
                     k \in DOMAIN rows[i].files} :
             i \in DOMAIN rows}

SnapshotRowIds(data) == {SnapshotRows(data)[i].id : i \in DOMAIN SnapshotRows(data)}

ShownFileSet(cont) ==
  LET rows == RowsShown(cont)
  IN UNION { UNION { {<<rows[i].delRow, rows[i].cells[c].uploader.kind,
                        rows[i].cells[c].files[j].del, rows[i].cells[c].files[j].text>> :
                         j \in DOMAIN rows[i].cells[c].files} :
                     c \in DOMAIN rows[i].cells} :
             i \in DOMAIN rows}

ShownRowIds(cont) == {RowsShown(cont)[i].delRow : i \in DOMAIN RowsShown(cont)}

\* C5 as stated, its first half (which the second half implies): no file whose
\* delete, or whose row's delete, has been acknowledged is displayed.
C5_NoAcknowledgedDeleteShown ==
  \A t \in DOMAIN tasks :
    (tasks[t].mut = "ok" /\ tasks[t].pc = "refresh") =>
      /\ tasks[t].op = "deleteFile" =>
           \A f \in ShownFileSet(content) : f[3] # tasks[t].arg.id
      /\ tasks[t].op = "deleteRow" =>
           \A f \in ShownFileSet(content) : f[1] # tasks[t].arg.id

\* C5, amended: a snapshot lists exactly the rows and files the store holds
\* when it answers the fetch, and a refresh that renders a snapshot displays
\* exactly the rows of that snapshot, each once, and in each row's cells
\* exactly the snapshot's files of that row and kind.  A file deleted after the
\* snapshot was taken stays displayed until a later snapshot is rendered.
C5_ViewShowsRenderedSnapshot ==
  [][ \A t \in DOMAIN tasks :
        /\ (tasks[t].ref = "sent" /\ tasks'[t].ref = "replied" /\ tasks'[t].resp.ok) =>
             /\ SnapshotFileSet(tasks'[t].resp.body.val) = StoreFileSet(store)
             /\ SnapshotRowIds(tasks'[t].resp.body.val) = StoreRowIds(store)
        /\ (tasks[t].ref = "replied" /\ tasks'[t].ref = "ok") =>
             /\ ShownFileSet(content') = SnapshotFileSet(tasks[t].resp.body.val)
             /\ ShownRowIds(content') = SnapshotRowIds(tasks[t].resp.body.val)
             /\ Len(RowsShown(content')) = Len(SnapshotRows(tasks[t].resp.body.val))
             /\ Len(FilesShown(content')) = Cardinality(ShownFileSet(content'))
    ]_vars

C5_Witness ==
  /\ \E t \in DOMAIN tasks : tasks[t].op = "deleteFile" /\ tasks[t].ref = "ok"
  /\ RowsShown(content) # <<>>
  /\ FilesShown(content) = <<>>
  /\ store.files = <<>>

\* the upload handlers that have not returned
RunningUploads == {t \in DOMAIN tasks : tasks[t].op = "uploadFile" /\ tasks[t].pc # "done"}

\* C6: for every upload control at most one upload request issued by it is in
\* flight, and the control is disabled for as long as its handler runs.
C6_OneUploadPerControl ==
  \A t \in RunningUploads :
    /\ CtlState(tasks[t].arg.ctrl).disabled
    /\ \A u \in RunningUploads : tasks[u].arg.ctrl = tasks[t].arg.ctrl => u = t

\* a control that is displayed while its upload is on its way, and one more
\* handler can start
C6_Witness ==
  \E t \in RunningUploads :
    /\ tasks[t].mut = "sent"
    /\ tasks[t].arg.ctrl \in ControlsShown(content)
    /\ CanStart

\* every control that is not idle has an upload handler that has not returned
BusyControlsHaveHandlers ==
  \A c \in DOMAIN ctl : \E t \in RunningUploads : tasks[t].arg.ctrl = c

\* how far a handler has got
Rank(task) ==
  CASE task.pc = "done" -> 5
    [] task.ref = "replied" -> 4
    [] task.ref = "sent" -> 3
    [] task.mut = "replied" -> 2
    [] OTHER -> 1

\* a handler that has not returned awaits exactly one request: one the store
\* can answer (ServeMutation, FailMutation, ServeGet, FailGet are enabled on
\* "sent") or one whose response resumes it (the resume actions are enabled on
\* "replied")
AwaitsOneRequest(task) ==
  \/ task.mut \in {"sent", "replied"} /\ task.ref = "none"
  \/ task.mut = "ok" /\ task.ref \in {"sent", "replied"}

\* C7: once the response of an upload request has arrived, with success or
\* with failure, the control is re-enabled, its label reset and its selection
\* cleared.  Stated so that a finite run refutes it: an upload handler that has
\* not returned always has a next step, each of its steps takes it further,
\* the step in which it returns leaves its control idle, and no control is
\* busy without such a handler.
C7_UploadControlReenabled ==
  [][ /\ BusyControlsHaveHandlers'
      /\ \A t \in RunningUploads :
           /\ AwaitsOneRequest(tasks[t])
           /\ tasks'[t] # tasks[t] => Rank(tasks'[t]) > Rank(tasks[t])
           /\ tasks'[t].pc = "done" => tasks[t].arg.ctrl \notin DOMAIN ctl'
           /\ tasks'[t].pc # "done" => AwaitsOneRequest(tasks'[t])
    ]_vars

\* an upload handler has returned after a failed POST, another after its
\* refresh, and every control is idle
C7_Witness ==
  /\ \E t \in DOMAIN tasks :
       tasks[t].op = "uploadFile" /\ tasks[t].pc = "done" /\ tasks[t].mut = "fail"
  /\ \E t \in DOMAIN tasks :
       tasks[t].op = "uploadFile" /\ tasks[t].pc = "done" /\ tasks[t].ref # "none"
  /\ ctl = NoCtl

\* C8: createRow with a title that is empty after trimming sends nothing (no
\* POST, no refresh fetch), alerts, and leaves the fields, the view and the
\* store as they were; createRow with a title that is not sends exactly one
\* POST /api/rows, with the trimmed title and with category and note equal to
\* the empty text when they are blank.
C8_CreateRowValidation ==
  [][ (Started /\ NewOne.op = "createRow") =>
        /\ \A t \in DOMAIN tasks : tasks'[t] = tasks[t]
        /\ UNCHANGED <<title, category, note, content, badge, store>>
        /\ NewOne.ref = "none"
        /\ IF Trim(title) = <<>>
           THEN /\ NewOne.mut = "none"
                /\ NewOne.pc = "done"
                /\ NewOne.alerts # <<>>
           ELSE /\ NewOne.mut = "sent"
                /\ NewOne.arg.body.title = Trim(title)
                /\ Trim(category) = <<>> => NewOne.arg.body.category = <<>>
                /\ Trim(note) = <<>> => NewOne.arg.body.note = <<>>
    ]_vars

\* a rejected createRow with a blank title in the field, and a POST on its
\* way whose category and note are empty while the category field is blank
C8_Witness ==
  /\ \E t \in DOMAIN tasks :
       tasks[t].op = "createRow" /\ tasks[t].mut = "none" /\ tasks[t].alerts # <<>>
  /\ \E t \in DOMAIN tasks :
       /\ tasks[t].op = "createRow" /\ tasks[t].mut = "sent"
       /\ tasks[t].arg.body.category = <<>> /\ tasks[t].arg.body.note = <<>>
       /\ category = <<" ">>

Deletes == {"deleteRow", "deleteFile"}

\* C9: deleteRow and the file delete control send their DELETE only when
\* confirm() was accepted: a declined confirmation sends neither a DELETE nor
\* a refresh fetch and leaves the store and the view as they were.
C9_DeleteNeedsConfirmation ==
  [][ (Started /\ NewOne.op \in Deletes) =>
        /\ NewOne.mut # "none" => NewOne.arg.confirmed
        /\ ~NewOne.arg.confirmed =>
             /\ NewOne.mut = "none" /\ NewOne.ref = "none" /\ NewOne.pc = "done"
             /\ \A t \in DOMAIN tasks : tasks'[t] = tasks[t]
             /\ UNCHANGED <<store, content, badge, gen>>
    ]_vars

\* a declined row delete and a declined file delete
C9_Witness ==
  /\ \E t \in DOMAIN tasks :
       tasks[t].op = "deleteRow" /\ tasks[t].mut = "none" /\ ~tasks[t].arg.confirmed
  /\ \E t \in DOMAIN tasks :
       tasks[t].op = "deleteFile" /\ tasks[t].mut = "none" /\ ~tasks[t].arg.confirmed

\* C10: after every completed refresh the badge shows the number of file
\* entries rendered in the kind cells of the tables on the surface.
C10_BadgeCountsRenderedFiles ==
  gen >= 1 => badge = Len(FilesShown(content))

\* a category-mode surface with two files in one bucket
C10_Witness ==
  /\ \E i \in DOMAIN content : content[i].type = "groupHead"
  /\ \E i \in DOMAIN CellsShown(content) : Len(CellsShown(content)[i].files) = 2
  /\ badge = 2

\* What of a surface can be observed: its nodes without the identity of the
\* elements of the render that built them.
Surface(cont) ==
  [n \in DOMAIN cont |->
     IF cont[n].type # "table" THEN cont[n]
     ELSE [type |-> "table",
           rows |-> [i \in DOMAIN cont[n].rows |->
              [cont[n].rows[i] EXCEPT !.cells =
                 [c \in DOMAIN @ |-> [@[c] EXCEPT !.uploader.gen = 0]]]]]]

HeadsOf(cont) == SelectSeq(cont, LAMBDA n : n.type = "groupHead")

\* C11: each refresh that renders leaves on the surface the rendering of its
\* own snapshot and nothing else, whatever was there before and however the
\* fetches overlapped: one table in time mode, one heading and one table per
\* group in category mode, each row of the snapshot once; rendering the
\* snapshot that is already displayed leaves the surface as it was.
C11_RenderIdempotent ==
  [][ \A t \in DOMAIN tasks :
        (tasks[t].ref = "replied" /\ tasks'[t].ref = "ok") =>
          LET d == tasks[t].resp.body.val
              once == Surface(refreshContent(d, 0))
          IN /\ Surface(content') = once
             /\ Surface(content) = once => Surface(content') = Surface(content)
             /\ Len(RowsShown(content')) = Len(SnapshotRows(d))
             /\ IF d.mode = "time"
                THEN Len(content') = 1 /\ Len(TablesOf(content')) = 1
                ELSE /\ Len(TablesOf(content')) = Len(d.groups)
                     /\ Len(HeadsOf(content')) = Len(d.groups)
                     /\ Len(content') = IF d.groups = <<>> THEN 1 ELSE 2 * Len(d.groups)
    ]_vars

\* two refreshes have rendered and a third, whose fetch overlapped theirs, is
\* about to render the snapshot that is displayed
C11_Witness ==
  /\ gen >= 2
  /\ RowsShown(content) # <<>>
  /\ \E t \in DOMAIN tasks :
       /\ tasks[t].ref = "replied" /\ tasks[t].resp.ok
       /\ Surface(refreshContent(tasks[t].resp.body.val, 0)) = Surface(content)

\* the row ids found on the files of a store, and of a snapshot
FileRowIds(s) == {s.files[i].row_id : i \in DOMAIN s.files}
SnapshotFileRowIds(data) == {f[1] : f \in SnapshotFileSet(data)}

\* C12: a row delete that the store acknowledges removes the row and every
\* file of it in one step and nothing else; one that fails leaves the store as
\* it was; a deleted row never comes back; and every fetch answers with the
\* rows and files the store holds at that moment, so that no fetch shows a
\* deleted row, a file of it, or a file without its row.
C12_RowDeleteCascades ==
  [][ /\ \A t \in DOMAIN tasks :
           (tasks[t].op = "deleteRow" /\ tasks[t].mut = "sent" /\ tasks'[t].mut = "replied") =>
             IF tasks'[t].resp.ok
             THEN /\ StoreRowIds(store') = StoreRowIds(store) \ {tasks[t].arg.id}
                  /\ StoreFileSet(store') =
                       {f \in StoreFileSet(store) : f[1] # tasks[t].arg.id}
             ELSE store' = store
      /\ \A id \in 1..(store.nextRow - 1) :
           id \notin StoreRowIds(store) => id \notin StoreRowIds(store')
      /\ store'.nextRow >= store.nextRow
      /\ FileRowIds(store') \subseteq StoreRowIds(store')
      /\ \A t \in DOMAIN tasks :
           (tasks[t].ref = "sent" /\ tasks'[t].ref = "replied" /\ tasks'[t].resp.ok) =>
             LET d == tasks'[t].resp.body.val
             IN /\ SnapshotRowIds(d) = StoreRowIds(store)
                /\ SnapshotFileSet(d) = StoreFileSet(store)
                /\ SnapshotFileRowIds(d) \subseteq SnapshotRowIds(d)
    ]_vars

\* a row delete has failed; a later one of row 1, which had a file, was
\* acknowledged, and the fetch that followed shows neither the row nor a file
C12_Witness ==
  /\ \E t \in DOMAIN tasks : tasks[t].op = "deleteRow" /\ tasks[t].mut = "fail"
  /\ \E t \in DOMAIN tasks :
       /\ tasks[t].op = "deleteRow" /\ tasks[t].mut = "ok"
       /\ tasks[t].ref = "replied" /\ tasks[t].resp.ok
       /\ tasks[t].arg.id = 1
       /\ SnapshotRowIds(tasks[t].resp.body.val) = {2}
       /\ SnapshotFileSet(tasks[t].resp.body.val) = {}

\* C13: the step in which createRow learns that its POST succeeded leaves
\* #title, #category and #note empty; the step in which it learns that the POST
\* failed, and the step of a rejected createRow, leave the three as they were.
C13_CreateRowClearsFields ==
  [][ /\ \A t \in DOMAIN tasks :
           (tasks[t].op = "createRow" /\ tasks[t].mut = "replied") =>
             /\ tasks'[t].mut = "ok" =>
                  title' = <<>> /\ category' = <<>> /\ note' = <<>>
             /\ tasks'[t].mut = "fail" => UNCHANGED <<title, category, note>>
      /\ (Started /\ NewOne.op = "createRow") => UNCHANGED <<title, category, note>>
    ]_vars

\* where the row of an id stands in the store
StorePos(s, id) == CHOOSE i \in DOMAIN s.rows : s.rows[i].id = id

\* C14: a time-mode snapshot lists each row of the store once, most recent
\* first, rows of one created_at in the order of the store; and the refresh
\* that renders it displays its rows in one table in the order of the snapshot.
C14_TimeModeOrder ==
  [][ \A t \in DOMAIN tasks :
        /\ ( /\ tasks[t].ref = "sent" /\ tasks'[t].ref = "replied"
             /\ tasks'[t].resp.ok /\ tasks[t].mode = "time" ) =>
             LET rows == tasks'[t].resp.body.val.rows
             IN /\ Len(rows) = Len(store.rows)
                /\ {rows[i].id : i \in DOMAIN rows} = StoreRowIds(store)
                /\ \A i, j \in DOMAIN rows :
                     i < j =>
                       /\ rows[i].created_at >= rows[j].created_at
                       /\ rows[i].created_at = rows[j].created_at =>
                            StorePos(store, rows[i].id) < StorePos(store, rows[j].id)
        /\ ( /\ tasks[t].ref = "replied" /\ tasks'[t].ref = "ok"
             /\ tasks[t].resp.body.val.mode = "time" ) =>
             LET rows == tasks[t].resp.body.val.rows
                 shown == RowsShown(content')
             IN /\ Len(TablesOf(content')) = 1
                /\ Len(shown) = Len(rows)
                /\ \A i \in DOMAIN rows :
                     /\ shown[i].delRow = rows[i].id
                     /\ shown[i].created_at = rows[i].created_at
                     /\ shown[i].title = rows[i].title
    ]_vars

\* two rows created one after the other are displayed, the later one first
C14_Witness ==
  /\ Len(content) = 1
  /\ Len(RowsShown(content)) = 2
  /\ RowsShown(content)[1].created_at > RowsShown(content)[2].created_at
  /\ RowsShown(content)[1].delRow > RowsShown(content)[2].delRow

\* the categories of a sequence of rows in first-seen order
RECURSIVE FirstSeen(_, _)
FirstSeen(rows, acc) ==
  IF rows = <<>> THEN acc
  ELSE FirstSeen(Tail(rows),
         IF Head(rows).category \in Range(acc) THEN acc
         ELSE Append(acc, Head(rows).category))

\* C15: the refresh that renders a category-mode snapshot displays one heading
\* and one table per category, in first-seen order of the categories among the
\* rows of the store, whatever the category texts are, and every row of the
\* snapshot in exactly one table, under the heading of its category.
C15_CategoryFirstSeenOrder ==
  [][ \A t \in DOMAIN tasks :
        ( /\ tasks[t].ref = "replied" /\ tasks'[t].ref = "ok"
          /\ tasks[t].resp.body.val.mode = "category" ) =>
          LET d == tasks[t].resp.body.val
              heads == HeadsOf(content')
              tables == TablesOf(content')
          IN /\ [i \in DOMAIN heads |-> heads[i].key] = FirstSeen(SnapshotRows(d), <<>>)
             /\ Len(RowsShown(content')) = Len(SnapshotRows(d))
             /\ ShownRowIds(content') = SnapshotRowIds(d)
             /\ Len(tables) = Len(heads)
             /\ \A i \in DOMAIN tables : \A j \in DOMAIN tables[i].rows :
                  tables[i].rows[j].category = heads[i].key
    ]_vars

\* the message C16 expects for a non-success response: the error field of a
\* body that parses to { error: string }, the generic one otherwise
ExpectedMessage(resp) ==
  IF resp.body.json /\ HasField(resp.body.val, "error") /\ resp.body.val.error.t = "string"
  THEN Msg(resp.body.val.error.v, 0)
  ELSE Msg("HTTP", resp.status)

\* C16: a handler that alerts what api throws, resuming on a response: on a
\* non-success response its request has failed and it alerts the error field
\* of a body of shape { error: string } and "HTTP {status}" for every other
\* body; on a success response api throws nothing and nothing is alerted.
C16_ApiErrorMessage ==
  [][ \A t \in DOMAIN tasks :
        ( /\ tasks[t].op \in {"deleteFile", "uploadFile"}
          /\ tasks[t].mut = "replied" /\ tasks'[t].mut # "replied" ) =>
          IF tasks[t].resp.ok
          THEN tasks'[t].mut = "ok" /\ tasks'[t].alerts = <<>>
          ELSE /\ tasks'[t].mut = "fail"
               /\ tasks'[t].alerts = << ExpectedMessage(tasks[t].resp) >>
    ]_vars

\* the kinds of the registry, in its order
RegistryOrder == [i \in DOMAIN attachKinds |-> attachKinds[i].key]

\* C17: the POST /api/upload a control sends carries the kind and row id the
\* control was built with; a control is built only by the refresh that renders
\* a snapshot, one per row of the snapshot and kind of the registry; and the
\* kind cells of every displayed row are those of the registry, in its order.
C17_UploadKindInRegistry ==
  [][ /\ (Started /\ NewOne.op = "uploadFile") =>
           /\ NewOne.mut = "sent"
           /\ NewOne.arg.ctrl \in ControlsShown(content)
           /\ NewOne.arg.ctrl.kind \in KindKeys
           /\ NewOne.arg.ctrl.rowId \in ShownRowIds(content)
      /\ \A t \in DOMAIN tasks :
           (tasks[t].ref = "replied" /\ tasks'[t].ref = "ok") =>
             /\ ControlsShown(content') =
                  { [gen |-> gen', rowId |-> id, kind |-> k] :
                      id \in SnapshotRowIds(tasks[t].resp.body.val), k \in KindKeys }
             /\ \A i \in DOMAIN RowsShown(content') :
                  [c \in DOMAIN RowsShown(content')[i].cells |->
                     RowsShown(content')[i].cells[c].uploader.kind] = RegistryOrder
      /\ content' # content => gen' = gen + 1
      /\ \A t \in DOMAIN tasks :
           ( /\ tasks[t].op = "uploadFile" /\ tasks[t].mut = "sent"
             /\ tasks'[t].mut = "replied" /\ tasks'[t].resp.ok ) =>
             \E i \in DOMAIN store'.files :
               /\ i \notin DOMAIN store.files
               /\ store'.files[i].kind = tasks[t].arg.ctrl.kind
               /\ store'.files[i].row_id = tasks[t].arg.ctrl.rowId
               /\ store'.files[i].kind \in KindKeys
    ]_vars

\* the upload of the last kind of the registry is on its way from a displayed
\* control of row 2
C17_Witness ==
  \E t \in RunningUploads :
    /\ tasks[t].mut = "sent"
    /\ tasks[t].arg.ctrl.kind = "other"
    /\ tasks[t].arg.ctrl.rowId = 2
    /\ tasks[t].arg.ctrl \in ControlsShown(content)

\* every handler has returned and none of its requests has failed
AllSettledWell ==
  \A t \in DOMAIN tasks :
    tasks[t].pc = "done" /\ tasks[t].mut # "fail" /\ tasks[t].ref # "fail"

\* C18: once no request is in flight and every request has succeeded, the view
\* displays the rows and files the store holds.
C18_FinalViewIsCurrent ==
  AllSettledWell =>
    /\ ShownRowIds(content) = StoreRowIds(store)
    /\ ShownFileSet(content) = StoreFileSet(store)

\* C19: no two DELETE requests for one row id, or for one file id, are issued:
\* of the delete handlers that have sent theirs and have not returned, no two
\* are of the same control.
C19_OneDeletePerId ==
  \A t, u \in DOMAIN tasks :
    ( /\ t # u
      /\ tasks[t].op \in Deletes /\ tasks[u].op = tasks[t].op
      /\ tasks[t].pc # "done" /\ tasks[u].pc # "done" ) =>
      tasks[t].arg.id # tasks[u].arg.id

\* C20: the step in which a refresh learns that its fetch failed leaves
\* #content and the badge as they were; #content and the badge change only in
\* the step in which a refresh has received a snapshot, both from that
\* snapshot, and #content is never left empty by it.
C20_FailedRefreshKeepsView ==
  [][ /\ \A t \in DOMAIN tasks :
           (tasks[t].ref = "replied" /\ tasks'[t].ref = "fail") =>
             UNCHANGED <<content, badge, gen>>
      /\ (content' # content \/ badge' # badge) =>
           \E t \in DOMAIN tasks :
             /\ tasks[t].ref = "replied" /\ tasks'[t].ref = "ok"
             /\ content' = refreshContent(tasks[t].resp.body.val, gen')
             /\ badge' = countAllFiles(SnapshotRows(tasks[t].resp.body.val))
             /\ content' # <<>>
    ]_vars

\* the refresh awaited by an upload has failed, which was alerted, and the
\* rows and the file rendered before are still displayed, with the badge
C20_Witness ==
  /\ \E t \in DOMAIN tasks :
       tasks[t].op = "uploadFile" /\ tasks[t].ref = "fail" /\ tasks[t].alerts # <<>>
  /\ Len(RowsShown(content)) = 2
  /\ Len(FilesShown(content)) = 1
  /\ badge = 1

====
